---- MODULE Spec2Model ----
(***************************************************************************)
(* Model of U8RingBuffer (src/src/lib.rs): a fixed-capacity circular byte  *)
(* buffer with a scratch region that slice() fills with the linear view.   *)
(*                                                                         *)
(* Indices are 0-based as in the source: ring and buffer are functions on  *)
(* 0..capacity-1; inputs, patterns and views are sequences.  The methods   *)
(* are operators on a record s of the four fields, so that the same code   *)
(* runs on the buffer under test and on the second buffer of SpecTwin.     *)
(***************************************************************************)
EXTENDS Integers, Sequences, FiniteSets, TLC

\* Largest capacity handed to new(); every capacity 1..MaxCap is explored.
MaxCap == 4

\* Largest capacity of the two buffers compared in SpecTwin.
MaxCapTwin == 5

\* Longest search pattern handed to first_occurence / second_occurence.
MaxPat == 2

\* u8 values. The code only copies and compares bytes, so two values are
\* enough to tell any two positions apart.
Byte == {0, 1}

\* Option<usize>::None
None == -1

VARIABLES
    capacity,     \* ring.capacity(), fixed by new()
    ring,         \* the circular store
    buffer,       \* the scratch region slice() linearizes into
    len,          \* number of valid bytes
    pos,          \* next write position
    call,         \* the last call: its name, the length of the input or
                  \* pattern it was given, and what it returned
    fault,        \* how the last call ended: "none", "panic" (a bounds check
                  \* failed, the call never returned) or "oob" (a raw copy
                  \* left the bounds of its source or destination, after
                  \* which nothing the program does is defined); a run is
                  \* followed up to and including its first fault
    fifo,         \* history: the abstract bounded FIFO run on the same calls
    pushes_only,  \* history: no purge and no clear since new()
    pushed,       \* history: the inputs of all pushes since new(), one after
                  \* the other, while only push was called and they fit
                  \* the capacity; Spilled from then on
    twin          \* SpecTwin: a second buffer, fresh from new(), given the
                  \* same pushes

vars == <<capacity, ring, buffer, len, pos, call, fault, fifo, pushes_only, pushed, twin>>

Idx(c) == 0 .. (c - 1)

Min(a, b) == IF a <= b THEN a ELSE b

Max(a, b) == IF a >= b THEN a ELSE b

\* All byte sequences of length lo..hi.
SeqsOf(lo, hi) == UNION {[1 .. n -> Byte] : n \in lo .. hi}

\* The byte at 0-based index i of a slice.
At(s, i) == s[i + 1]

\* The callers' inputs to push: empty, shorter than, equal to and longer than
\* the capacity.
Inputs == SeqsOf(0, capacity + 1)

Patterns == SeqsOf(0, MaxPat)

Amounts == 0 .. (capacity + 1)

\* The fields of the buffer under test.
self == [ring |-> ring, buffer |-> buffer, len |-> len, pos |-> pos]

\* std::ptr::copy_nonoverlapping(&src[s], &mut dst[d], n) for an in-bounds
\* source; the bytes it writes past the end of dst are not part of dst.
copy_nonoverlapping(src, s, dst, d, n) ==
    [i \in DOMAIN dst |-> IF d <= i /\ i < d + n THEN src[s + (i - d)] ELSE dst[i]]

\* The same copy from a caller's slice; junk supplies the bytes read past the
\* end of the slice.
copy_from_input(input, s, dst, d, n, junk) ==
    [i \in DOMAIN dst |->
        IF d <= i /\ i < d + n
        THEN IF s + (i - d) < Len(input)
             THEN At(input, s + (i - d))
             ELSE junk[(s + (i - d)) - Len(input) + 1]
        ELSE dst[i]]

\* fn last(&self): the index of the oldest valid byte.
last(s) ==
    IF s.len = capacity THEN s.pos
    ELSE LET diff == s.pos - s.len
         IN IF diff >= 0 THEN diff ELSE capacity + diff

\* Seeded fault for C13: the cursor is advanced without the reduction modulo
\* the capacity.
inc_pos_by_unreduced(s, inc) ==
    [s EXCEPT !.pos = s.pos + inc,
              !.len = IF s.len >= capacity THEN s.len
                      ELSE Min(s.len + inc, capacity)]

\* Seeded fault for C15: the length is advanced without the clamp to the
\* capacity.
inc_pos_by_unclamped(s, inc) ==
    [s EXCEPT !.pos = (s.pos + inc) % capacity,
              !.len = IF s.len >= capacity THEN s.len ELSE s.len + inc]

\* fn inc_pos_by(&mut self, inc)
inc_pos_by(s, inc) ==
    [s EXCEPT !.pos = (s.pos + inc) % capacity,
              !.len = IF s.len >= capacity THEN s.len
                      ELSE Min(s.len + inc, capacity)]

\* Seeded fault for C4: the truncation keeps the head of the input instead of
\* its tail.
truncate_head(input) ==
    IF Len(input) > capacity THEN SubSeq(input, 1, capacity) ELSE input

\* push: `buffer = &buffer[buffer.len() - capacity..]` when the input is longer
\* than the capacity.
truncate(input) ==
    IF Len(input) > capacity
    THEN SubSeq(input, Len(input) - capacity + 1, Len(input))
    ELSE input

\* push, wrapping branch: the index into the input where the second copy
\* starts, and the number of bytes it moves.
wrap_src(s, n) == n - (capacity - s.pos) + 1

wrap_count(s, n) == n - (capacity - s.pos)

\* push: which branch an input of n bytes (after truncation) takes.
push_branch(s, n) ==
    IF n = capacity THEN "full"
    ELSE IF n > capacity - s.pos THEN "wrap"
    ELSE "fit"

\* push: whether a bounds-checked index into the input fails.
push_panics(s, n) ==
    \/ push_branch(s, n) = "wrap" /\ wrap_src(s, n) >= n
    \/ push_branch(s, n) = "fit" /\ n = 0

\* push: how many bytes its copies read past the end of the input.
push_overrun(s, n) ==
    IF push_branch(s, n) = "wrap" /\ ~push_panics(s, n)
    THEN Max(0, (wrap_src(s, n) + wrap_count(s, n)) - n)
    ELSE 0

\* push: the ring when the call ends, by return or by panic.
push_ring(s, b, junk) ==
    LET n == Len(b)
    IN IF push_branch(s, n) = "full"
       THEN LET r1 == copy_from_input(b, 0, s.ring, s.pos, capacity - s.pos, <<>>)
            IN IF s.pos # 0
               THEN copy_from_input(b, capacity - s.pos, r1, 0, s.pos, <<>>)
               ELSE r1
       ELSE IF push_branch(s, n) = "wrap"
       THEN LET r1 == copy_from_input(b, 0, s.ring, s.pos, capacity - s.pos, <<>>)
            IN IF push_panics(s, n) THEN r1
               ELSE copy_from_input(b, wrap_src(s, n), r1, 0, wrap_count(s, n), junk)
       ELSE IF push_panics(s, n) THEN s.ring
       ELSE copy_from_input(b, 0, s.ring, s.pos, n, <<>>)

\* pub fn push(&mut self, mut buffer: &[u8]): the fields when the call ends.
push_fields(s, input, junk) ==
    LET b == truncate(input)
        written == [s EXCEPT !.ring = push_ring(s, b, junk)]
    IN IF push_panics(s, Len(b)) THEN written
       ELSE inc_pos_by(written, Len(b))

\* How a push ends.
push_fault(s, input) ==
    IF push_panics(s, Len(truncate(input))) THEN "panic"
    ELSE IF push_overrun(s, Len(truncate(input))) > 0 THEN "oob"
    ELSE "none"

\* The bytes a push can find past the end of its input.
Junk(s, input) ==
    LET k == push_overrun(s, Len(truncate(input))) IN SeqsOf(k, k)

\* slice: which of its three branches runs.
slice_branch(s) ==
    IF last(s) < s.pos THEN 1 ELSE IF last(s) > s.pos THEN 2 ELSE 3

\* slice: the scratch region after its copies.
slice_buffer(s) ==
    IF slice_branch(s) = 1
    THEN copy_nonoverlapping(s.ring, last(s), s.buffer, 0, s.len)
    ELSE IF slice_branch(s) = 2
    THEN LET b1 == copy_nonoverlapping(s.ring, s.pos, s.buffer, 0, capacity - s.pos)
         IN IF last(s) # capacity
            THEN copy_nonoverlapping(s.ring, 0, b1, capacity - last(s), capacity - last(s))
            ELSE b1
    ELSE LET b1 == copy_nonoverlapping(s.ring, s.pos, s.buffer, 0, capacity - s.pos)
         IN IF s.pos # 0
            THEN copy_nonoverlapping(s.ring, 0, b1, capacity - s.pos, s.pos)
            ELSE b1

\* Seeded fault for C2: every branch returns the whole scratch region.
slice_len_whole(s) == capacity

\* slice: the length of the view it returns, &self.buffer[..len] or
\* &self.buffer[..].
slice_len(s) == IF slice_branch(s) = 3 THEN capacity ELSE s.len

\* slice: the second copy of the branch last > pos ends past the scratch
\* region.
slice_overrun(s) ==
    /\ slice_branch(s) = 2
    /\ last(s) # capacity
    /\ 2 * (capacity - last(s)) > capacity

\* slice: the number of bytes its copies move into the scratch region.
slice_copied(s) ==
    IF slice_branch(s) = 1 THEN s.len
    ELSE IF slice_branch(s) = 2
    THEN (capacity - s.pos) + (IF last(s) # capacity THEN capacity - last(s) ELSE 0)
    ELSE (capacity - s.pos) + (IF s.pos # 0 THEN s.pos ELSE 0)

\* What the bytes written past the scratch region can leave in the ring, the
\* allocation made right after it.
Clobber(s) == IF slice_overrun(s) THEN [Idx(capacity) -> Byte] ELSE {s.ring}

\* The view &b[..n] as a sequence.
View(b, n) == [i \in 1 .. n |-> b[i - 1]]

\* pub fn slice(&mut self) -> &[u8]: the view returned from fields s.
slice_view(s) == View(slice_buffer(s), slice_len(s))

\* Seeded fault for C17: the scan includes the offset slen - blen.
occurence_inclusive(v, pattern, offset) ==
    LET blen == Len(pattern)
        slen == Len(v)
    IN IF offset + blen > slen THEN None
       ELSE LET hits == {idx \in offset .. (slen - blen) :
                            pattern = SubSeq(v, idx + 1, idx + blen)}
            IN IF hits = {} THEN None
               ELSE CHOOSE idx \in hits : \A other \in hits : idx <= other

\* fn occurence(&mut self, buffer, offset), on the view v slice() returned.
occurence(v, pattern, offset) ==
    LET blen == Len(pattern)
        slen == Len(v)
    IN IF offset + blen > slen THEN None
       ELSE LET hits == {idx \in offset .. (slen - blen - 1) :
                            pattern = SubSeq(v, idx + 1, idx + blen)}
            IN IF hits = {} THEN None
               ELSE CHOOSE idx \in hits : \A other \in hits : idx <= other

\* pub fn first_occurence(&mut self, buffer): what it returns.
first_ret(s, pattern) == occurence(slice_view(s), pattern, 0)

\* pub fn second_occurence(&mut self, buffer): the fields the second run of
\* occurence finds, r1 being the ring the first run left, and what it returns.
second_fields(s, r1) == [s EXCEPT !.buffer = slice_buffer(s), !.ring = r1]

second_ret(s, pattern, r1) ==
    IF first_ret(s, pattern) = None THEN None
    ELSE occurence(slice_view(second_fields(s, r1)), pattern, first_ret(s, pattern) + 1)

\* Seeded fault for C5: the amount is compared with the capacity instead of
\* the length.
purge_fails_capacity(s, amount) == amount > capacity

\* purge: `if amount > self.len { return false; }`
purge_fails(s, amount) == amount > s.len

\* pub fn purge(&mut self, amount) -> bool: what it returns.
purge_ret(s, amount) == ~purge_fails(s, amount)

\* Seeded fault for C20: a purge of the whole window leaves the cursor where
\* it was.
purge_fields_keeps_cursor(s, amount) ==
    IF purge_fails(s, amount) THEN s
    ELSE [s EXCEPT !.len = s.len - amount]

\* pub fn purge(&mut self, amount) -> bool: the fields when the call ends.
purge_fields(s, amount) ==
    IF purge_fails(s, amount) THEN s
    ELSE IF amount = s.len THEN [s EXCEPT !.len = 0, !.pos = 0]
    ELSE [s EXCEPT !.len = s.len - amount]

\* pub fn clear(&mut self): the fields when the call ends.
clear_fields(s) == [s EXCEPT !.len = 0, !.pos = 0]

\* U8RingBuffer::new(capacity): the regions hold whatever the allocation
\* held; ring is a clone of the region that becomes buffer.
new_fields(r) == [ring |-> r, buffer |-> r, len |-> 0, pos |-> 0]

\* The abstract bounded FIFO of capacity c: push appends and keeps the newest
\* c bytes, a purge within the length drops the oldest bytes, clear empties.
FifoPush(q, input, c) ==
    LET all == q \o input
    IN SubSeq(all, Max(0, Len(all) - c) + 1, Len(all))

FifoPurge(q, amount) ==
    IF amount > Len(q) THEN q ELSE SubSeq(q, amount + 1, Len(q))

NoTwin == <<>>

\* The value of pushed once a purge or a clear was called or more bytes were
\* pushed than the capacity.
Spilled == <<-1>>

Concat(p, input, c) ==
    IF p = Spilled \/ Len(p) + Len(input) > c THEN Spilled ELSE p \o input

\* The fields of the buffer under test become t.
Becomes(t) ==
    /\ ring' = t.ring
    /\ buffer' = t.buffer
    /\ len' = t.len
    /\ pos' = t.pos

Init ==
    /\ capacity \in 1 .. MaxCap
    /\ \E r \in [Idx(capacity) -> Byte] :
         /\ ring = new_fields(r).ring
         /\ buffer = new_fields(r).buffer
         /\ len = new_fields(r).len
         /\ pos = new_fields(r).pos
    /\ call = [op |-> "new", size |-> 0, ret |-> 0]
    /\ fault = "none"
    /\ fifo = <<>>
    /\ pushes_only = TRUE
    /\ pushed = <<>>
    /\ twin = NoTwin

\* pub fn push(&mut self, mut buffer: &[u8]) on the buffer under test.
push_self(input) ==
    /\ fault = "none"
    /\ \E junk \in Junk(self, input) : Becomes(push_fields(self, input, junk))
    /\ fault' = push_fault(self, input)
    /\ call' = [op |-> "push", size |-> Len(input), ret |-> 0]
    /\ fifo' = FifoPush(fifo, input, capacity)
    /\ pushed' = Concat(pushed, input, capacity)
    /\ UNCHANGED <<capacity, pushes_only>>

push(input) == push_self(input) /\ UNCHANGED twin

\* pub fn slice(&mut self) -> &[u8]; the view is the first call.ret bytes of
\* buffer.
slice ==
    /\ fault = "none"
    /\ buffer' = slice_buffer(self)
    /\ ring' \in Clobber(self)
    /\ fault' = IF slice_overrun(self) THEN "oob" ELSE "none"
    /\ call' = [op |-> "slice", size |-> 0, ret |-> slice_len(self)]
    /\ UNCHANGED <<capacity, len, pos, fifo, pushes_only, pushed, twin>>

\* pub fn clear(&mut self)
clear ==
    /\ fault = "none"
    /\ Becomes(clear_fields(self))
    /\ fault' = "none"
    /\ call' = [op |-> "clear", size |-> 0, ret |-> 0]
    /\ fifo' = <<>>
    /\ pushes_only' = FALSE
    /\ pushed' = Spilled
    /\ UNCHANGED <<capacity, twin>>

\* pub fn purge(&mut self, amount) -> bool
purge(amount) ==
    /\ fault = "none"
    /\ Becomes(purge_fields(self, amount))
    /\ fault' = "none"
    /\ call' = [op |-> "purge", size |-> 0, ret |-> purge_ret(self, amount)]
    /\ fifo' = FifoPurge(fifo, amount)
    /\ pushes_only' = FALSE
    /\ pushed' = Spilled
    /\ UNCHANGED <<capacity, twin>>

\* pub fn first_occurence(&mut self, buffer) -> Option<usize>
first_occurence(pattern) ==
    /\ fault = "none"
    /\ buffer' = slice_buffer(self)
    /\ ring' \in Clobber(self)
    /\ fault' = IF slice_overrun(self) THEN "oob" ELSE "none"
    /\ call' = [op |-> "first_occurence", size |-> Len(pattern), ret |-> first_ret(self, pattern)]
    /\ UNCHANGED <<capacity, len, pos, fifo, pushes_only, pushed, twin>>

\* pub fn second_occurence(&mut self, buffer) -> Option<usize>: occurence
\* runs slice() once, and once more when the first search found the pattern.
second_occurence(pattern) ==
    /\ fault = "none"
    /\ IF first_ret(self, pattern) = None
       THEN /\ buffer' = slice_buffer(self)
            /\ ring' \in Clobber(self)
            /\ call' = [op |-> "second_occurence", size |-> Len(pattern), ret |-> None]
       ELSE \E r1 \in Clobber(self) :
              /\ buffer' = slice_buffer(second_fields(self, r1))
              /\ ring' \in Clobber(second_fields(self, r1))
              /\ call' = [op |-> "second_occurence", size |-> Len(pattern),
                          ret |-> second_ret(self, pattern, r1)]
    /\ fault' = IF slice_overrun(self) THEN "oob" ELSE "none"
    /\ UNCHANGED <<capacity, len, pos, fifo, pushes_only, pushed, twin>>

Next ==
    \/ \E input \in Inputs : push(input)
    \/ slice
    \/ clear
    \/ \E amount \in Amounts : purge(amount)
    \/ \E pattern \in Patterns : first_occurence(pattern)
    \/ \E pattern \in Patterns : second_occurence(pattern)

Spec == Init /\ [][Next]_vars

(***************************************************************************)
(* SpecTwin: two buffers of the same capacity, both from new().  The       *)
(* buffer under test is pushed into, then cleared once; from then on both  *)
(* buffers are given the same non-empty pushes.  Each allocation starts    *)
(* out holding one repeated byte.                                          *)
(***************************************************************************)
Fill(b) == [i \in Idx(capacity) |-> b]

InitTwin ==
    /\ capacity \in 1 .. MaxCapTwin
    /\ \E b \in Byte :
         /\ ring = new_fields(Fill(b)).ring
         /\ buffer = new_fields(Fill(b)).buffer
         /\ len = new_fields(Fill(b)).len
         /\ pos = new_fields(Fill(b)).pos
    /\ call = [op |-> "new", size |-> 0, ret |-> 0]
    /\ fault = "none"
    /\ fifo = <<>>
    /\ pushes_only = TRUE
    /\ pushed = <<>>
    /\ \E b \in Byte : twin = [fields |-> new_fields(Fill(b)), fault |-> "none"]

\* A push into the buffer under test before it is cleared.
push_before(input) == pushes_only /\ push(input)

\* The one clear() of the buffer under test.
clear_once == pushes_only /\ clear

\* After the clear(): the same non-empty input pushed into both buffers.
push_both(input) ==
    /\ ~pushes_only
    /\ Len(input) >= 1
    /\ twin.fault = "none"
    /\ push_self(input)
    /\ \E junk \in Junk(twin.fields, input) :
         twin' = [fields |-> push_fields(twin.fields, input, junk),
                  fault |-> push_fault(twin.fields, input)]

NextTwin ==
    \/ \E input \in Inputs : push_before(input)
    \/ clear_once
    \/ \E input \in Inputs : push_both(input)

SpecTwin == InitTwin /\ [][NextTwin]_vars

(***************************************************************************)
(* The claims.  A claim about what a call does in every reachable state is *)
(* an invariant that applies the method's operators to the fields of the   *)
(* state, for every argument the callers can pass.                         *)
(***************************************************************************)

\* The last c bytes of a sequence.
Tail_(q, c) == SubSeq(q, Max(0, Len(q) - c) + 1, Len(q))

\* A sequence without its first k elements.
Drop(q, k) == SubSeq(q, k + 1, Len(q))

\* The start offsets at which pattern p occurs in window w.
Occurrences(w, p) ==
    {o \in 0 .. (Len(w) - Len(p)) : SubSeq(w, o + 1, o + Len(p)) = p}

\* The least of a non-empty set of offsets, None for the empty set.
Lowest(offsets) ==
    IF offsets = {} THEN None
    ELSE CHOOSE o \in offsets : \A other \in offsets : o <= other

\* C1: after any sequence of push, purge and clear calls, slice() returns
\* exactly length() bytes and they are the contents of the abstract bounded
\* FIFO run on the same calls, oldest first.
C1_SliceIsFifoWindow ==
    fault = "none" =>
        /\ Len(slice_view(self)) = len
        /\ slice_view(self) = fifo

\* C2: on a fresh buffer, after one or more non-empty pushes whose total
\* length is at most the capacity, every push has returned, slice() is the
\* pushed inputs one after the other, and length() is their total length.
C2_PushesWithinCapacity ==
    (pushed # Spilled /\ Len(pushed) >= 1 /\ fault # "panic") =>
        /\ fault = "none"
        /\ slice_view(self) = pushed
        /\ len = Len(pushed)

\* C2 witness: a buffer of capacity 3 filled to the brim by pushes, the last
\* of them shorter than the capacity.
C2_Witness ==
    /\ capacity = 3
    /\ call.op = "push"
    /\ call.size = 1
    /\ pushed = <<0, 1, 1>>
    /\ slice_view(self) = <<0, 1, 1>>

\* C3: in a full buffer reached by pushes only, a push of k bytes,
\* 1 <= k <= capacity, returns and leaves slice() equal to the previous
\* slice() without its first k bytes followed by the k new bytes, and the
\* length equal to the capacity.
C3_SlidingWindow ==
    (fault = "none" /\ pushes_only /\ len = capacity) =>
        \A input \in SeqsOf(1, capacity) : \A junk \in Junk(self, input) :
            LET t == push_fields(self, input, junk)
            IN /\ push_fault(self, input) # "panic"
               /\ t.len = capacity
               /\ slice_view(t) = Drop(slice_view(self), Len(input)) \o input

\* C4: in every reachable state, a push of an input longer than the capacity
\* returns and leaves slice() equal to the last `capacity` bytes of the input
\* and the length equal to the capacity.
C4_OverlongPush ==
    \A input \in Inputs : Len(input) > capacity =>
        \A junk \in Junk(self, input) :
            LET t == push_fields(self, input, junk)
            IN /\ push_fault(self, input) = "none"
               /\ t.len = capacity
               /\ slice_view(t) = Tail_(input, capacity)

\* C4 witness: an input longer than the capacity was pushed into a buffer
\* whose cursor was not at 0, and slice() shows its last bytes.
C4_Witness ==
    /\ call.op = "push"
    /\ call.size > capacity
    /\ pos = 1
    /\ capacity = 3
    /\ len = capacity
    /\ slice_view(self) = <<1, 0, 1>>

\* C5: in every reachable state, purge(amount) with amount > length() returns
\* false and leaves length, cursor, store, scratch and the result of slice()
\* as they were.
C5_PurgeTooMuch ==
    \A amount \in Amounts : amount > len =>
        /\ purge_ret(self, amount) = FALSE
        /\ purge_fields(self, amount) = self
        /\ slice_view(purge_fields(self, amount)) = slice_view(self)

\* C5 witness: a purge of more than the length was refused on a buffer that
\* holds bytes.
C5_Witness ==
    /\ call.op = "purge"
    /\ call.ret = FALSE
    /\ len >= 1
    /\ fifo # <<>>

\* C6: in every reachable state, purge(amount) with 0 <= amount < length()
\* returns true, lowers the length by amount and leaves slice() equal to the
\* previous slice() without its first `amount` bytes.
C6_PurgePrefix ==
    fault = "none" =>
        \A amount \in 0 .. (len - 1) :
            LET t == purge_fields(self, amount)
            IN /\ purge_ret(self, amount) = TRUE
               /\ t.len = len - amount
               /\ slice_view(t) = Drop(slice_view(self), amount)

\* C7: in every reachable state, purge(amount) with amount = length() returns
\* true and leaves length 0, cursor 0 and slice() a view of no bytes.
C7_PurgeAll ==
    fault = "none" =>
        LET t == purge_fields(self, len)
        IN /\ purge_ret(self, len) = TRUE
           /\ t.len = 0
           /\ t.pos = 0
           /\ slice_view(t) = <<>>

\* C8: clear() followed by non-empty pushes behaves as a freshly constructed
\* buffer of the same capacity given the same pushes: after each push that
\* returned, length() and slice() are the same in the two buffers.
C8_ClearIsFresh ==
    (~pushes_only /\ call.op = "push" /\ fault # "panic" /\ twin.fault # "panic") =>
        /\ len = twin.fields.len
        /\ slice_view(self) = slice_view(twin.fields)

\* C9: in every reachable state, for every non-empty pattern p no longer
\* than the window w = slice(), first_occurence(p) returns the lowest offset
\* o in 0 .. |w| - |p| at which p occurs in w, and not-found only if there is
\* none.
C9_FirstOccurrence ==
    fault = "none" =>
        \A p \in Patterns : (Len(p) >= 1 /\ Len(p) <= Len(slice_view(self))) =>
            first_ret(self, p) = Lowest(Occurrences(slice_view(self), p))

\* C10: in every reachable state, for every non-empty pattern p,
\* second_occurence(p) returns the lowest offset above the first occurrence
\* at which p occurs in w = slice(), and not-found exactly when p occurs at
\* fewer than two offsets.
C10_SecondOccurrence ==
    fault = "none" =>
        \A p \in Patterns : Len(p) >= 1 =>
            \A r1 \in Clobber(self) :
                LET all == Occurrences(slice_view(self), p)
                IN second_ret(self, p, r1) = Lowest(all \ {Lowest(all)})

\* C11: in every reachable state, first_occurence(p) returns not-found when p
\* is empty and when p is longer than the window (|p| > length()), also when
\* length() is 0.
C11_NoValidOffset ==
    fault = "none" =>
        \A p \in Patterns : (Len(p) = 0 \/ Len(p) > len) =>
            first_ret(self, p) = None

\* C12: in every reachable state and for every input (empty, shorter than,
\* equal to or longer than the capacity) push returns: no index into the
\* input fails its bounds check and no copy reads past the input.
C12_PushNeverFaults ==
    fault = "none" => \A input \in Inputs : push_fault(self, input) = "none"

\* C13: in every state reachable from new(C), C >= 1, by push, purge, clear,
\* slice and occurrence calls, 0 <= cursor < C and 0 <= length <= C.
C13_CursorAndLengthInRange ==
    /\ 0 <= pos /\ pos < capacity
    /\ 0 <= len /\ len <= capacity

\* C13 witness: a push of 3 bytes into a full buffer of capacity 4 has
\* wrapped the cursor from 2 past the end of the store to 1.
C13_Witness ==
    /\ capacity = 4
    /\ call.op = "push"
    /\ call.size = 3
    /\ fault = "none"
    /\ Len(fifo) = 4
    /\ len = 4
    /\ pos = 1

\* C14: for a push of t, the input cut to its last min(|input|, C) bytes,
\* 1 <= |t| <= C, from cursor c: the push returns, afterwards the store cell
\* (c + i) mod C holds t[i] for every i < |t|, and every other store cell is
\* as before.
C14_StoreAfterPush ==
    fault = "none" =>
        \A input \in Inputs : Len(input) >= 1 =>
            \A junk \in Junk(self, input) :
                LET t == truncate(input)
                    after == push_fields(self, input, junk).ring
                    written == {(pos + i) % capacity : i \in 0 .. (Len(t) - 1)}
                IN /\ push_fault(self, input) = "none"
                   /\ \A i \in 0 .. (Len(t) - 1) :
                         after[(pos + i) % capacity] = At(t, i)
                   /\ \A j \in Idx(capacity) \ written : after[j] = ring[j]

C16_StaleBytesInert ==
    (fault = "none" /\ len = 0) =>
        \A stale \in [Idx(capacity) -> Byte] :
            LET other == [self EXCEPT !.ring = stale]
            IN /\ slice_view(self) = <<>>
               /\ slice_view(other) = slice_view(self)
               /\ \A p \in Patterns :
                     /\ first_ret(self, p) = None
                     /\ first_ret(other, p) = first_ret(self, p)
                     /\ second_ret(self, p, ring) = None
                     /\ second_ret(other, p, stale) = second_ret(self, p, ring)

\* C17: in every reachable state and for every non-empty pattern p, the
\* searches only look at start offsets below |slice()| - |p|: neither
\* first_occurence nor second_occurence returns the offset |slice()| - |p|,
\* and a pattern whose only occurrence in slice() ends at its last byte is
\* reported not-found.
C17_SearchStopsShort ==
    fault = "none" =>
        \A p \in Patterns : Len(p) >= 1 =>
            LET w == slice_view(self)
                top == Len(w) - Len(p)
            IN /\ first_ret(self, p) = None \/ first_ret(self, p) < top
               /\ \A r1 \in Clobber(self) :
                     second_ret(self, p, r1) = None \/ second_ret(self, p, r1) < top
               /\ Occurrences(w, p) = {top} => first_ret(self, p) = None

\* C17 witness: first_occurence of the one-byte pattern [1] has returned
\* not-found on the window [0, 1], where it occurs at the last byte only.
C17_Witness ==
    /\ call.op = "first_occurence"
    /\ call.size = 1
    /\ call.ret = None
    /\ fault = "none"
    /\ fifo = <<0, 1>>
    /\ slice_view(self) = <<0, 1>>

\* C18: in every reachable state every copy slice() makes stays inside the
\* store and the scratch region, and slice() copies at most `capacity` bytes
\* into the scratch region.
C18_SliceInBounds ==
    fault = "none" =>
        /\ ~slice_overrun(self)
        /\ slice_copied(self) <= capacity

\* C19: slice(), first_occurence and second_occurence leave the length, the
\* cursor and every store cell as they were; only the scratch region may
\* change.
C19_QueriesReadOnly ==
    [][call'.op \in {"slice", "first_occurence", "second_occurence"} =>
          /\ len' = len
          /\ pos' = pos
          /\ ring' = ring]_vars

\* C20: in every reachable state a length of 0 implies a cursor of 0, and
\* the oldest index last() equals the cursor exactly when the buffer is full
\* or empty.
C20_EmptyMeansCursorZero ==
    /\ len = 0 => pos = 0
    /\ last(self) = pos <=> (len = capacity \/ len = 0)

\* C20 witness: a purge of the whole window of a buffer of capacity 4, whose
\* cursor had moved, has returned true and left length 0 and cursor 0.
C20_Witness ==
    /\ capacity = 4
    /\ call.op = "purge"
    /\ call.ret = TRUE
    /\ fifo = <<>>
    /\ len = 0
    /\ pos = 0
    /\ ring = (0 :> 1 @@ 1 :> 0 @@ 2 :> 1 @@ 3 :> 0)
    /\ buffer = (0 :> 0 @@ 1 :> 0 @@ 2 :> 0 @@ 3 :> 0)

====
